---- MODULE Spec2Model ----
(***************************************************************************)
(* csim.c: a trace-driven simulator of a set-associative cache with LRU    *)
(* replacement.  The model follows the C source: the globals args,         *)
(* num_sets, cache and stats, the functions init, evict and getData, and   *)
(* the loop of runTraceSim, one action per case of its switch.             *)
(***************************************************************************)
EXTENDS Integers, Sequences, FiniteSets, TLC

(* Bounds of the model. *)
MaxS == 1          \* idx_bits ranges over 1..MaxS
MaxE == 2          \* assoc ranges over 1..MaxE
MaxB == 1          \* block_bits ranges over 1..MaxB
MaxAddr == 8       \* addresses of trace records range over 0..MaxAddr
MaxAccesses == 4   \* getData calls of one run
MaxFile == 2       \* accesses of the records of a file with a line that does not match
MaxTraceLen == 5   \* records of a trace file given in advance
MaxFileBits == 2   \* idx_bits and block_bits range over 1..MaxFileBits when the file is given
MaxFileAddr == 31  \* addresses of the two-record files range over 0..MaxFileAddr
MaxOpts == 4       \* options on the command line

(* The initial value of evict's local lru.  ULONG_MAX is 2^64-1 in the     *)
(* build; the model checker's integers are 32 bits wide, so the constant   *)
(* is the largest of those.  Every stamp of the model is far below it, as  *)
(* every stamp of a real run is below 2^64-1.                              *)
ULONG_MAX == 2147483647

(* Return values of fscanf. *)
EOF == -1

VARIABLES
    idx_bits,      \* args.idx_bits
    assoc,         \* args.assoc
    block_bits,    \* args.block_bits
    num_sets,      \* num_sets
    cache,         \* cache[set][line] = [valid, tag, lru]
    stats,         \* [hits, misses, evictions, lru_count]
    pc,            \* position in runTraceSim: "fscanf", "M2", "closed"
    operation,     \* runTraceSim's local operation
    addr,          \* runTraceSim's local addr
    ret,           \* the value the last fscanf returned
    log,           \* history: the getData calls made so far, with their outcomes
    owed,          \* history: 1 per Load or Store record read, 2 per Modify record
    unread,        \* history: addresses the records left unread in the file would access
    file,          \* the trace file when it is given in advance: [lines, pos]
    prog           \* main: [t_addr, verbose, trace, given, nopts, usage, exit_code, init_called]

vars == <<idx_bits, assoc, block_bits, num_sets, cache, stats, pc, operation,
          addr, ret, log, owed, unread, file, prog>>

Addrs == 0..MaxAddr
Sizes == {1}
OtherOps == {"I"}
Ops == {"L", "S", "M"} \cup OtherOps

(* -------------------------------------------------------------------- *)
(* Bit operations on addr_t, within the model's range.                    *)

RECURSIVE Pow2(_)
Pow2(n) == IF n = 0 THEN 1 ELSE 2 * Pow2(n - 1)

(* 1 << n *)
Shl1(n) == Pow2(n)

(* x >> n *)
Shr(x, n) == x \div Pow2(n)

(* x & y *)
RECURSIVE BitAnd(_, _)
BitAnd(x, y) ==
    IF x = 0 \/ y = 0 THEN 0
    ELSE (IF x % 2 = 1 /\ y % 2 = 1 THEN 1 ELSE 0) + 2 * BitAnd(x \div 2, y \div 2)

(* -------------------------------------------------------------------- *)
(* init                                                                    *)

EmptyLine == [valid |-> 0, tag |-> 0, lru |-> 0]

init(nsets, E) == [set \in 0..(nsets - 1) |-> [line \in 0..(E - 1) |-> EmptyLine]]

(* -------------------------------------------------------------------- *)
(* evict                                                                   *)

(* The for loop of evict, from index line on, with the locals evict_at and lru. *)
RECURSIVE EvictScan(_, _, _, _, _)
EvictScan(set, E, line, evict_at, lru) ==
    IF line >= E THEN evict_at
    ELSE IF lru > set[line].lru
         THEN EvictScan(set, E, line + 1, line, set[line].lru)
         ELSE EvictScan(set, E, line + 1, evict_at, lru)

EvictAt(set, E) == EvictScan(set, E, 0, 0, ULONG_MAX)

(* Mutant of evict: line 95, the store of the valid flag, left out. *)
evictValidNotSet(set, E, tag, st) ==
    LET evict_at == EvictAt(set, E) IN
    [set   |-> [set EXCEPT ![evict_at] =
                   [valid |-> set[evict_at].valid, tag |-> tag, lru |-> st.lru_count]],
     stats |-> [st EXCEPT !.evictions = IF set[evict_at].valid = 1 THEN @ + 1 ELSE @,
                          !.lru_count = @ + 1]]

(* Mutant of evict: line 92, the count of the eviction, left out. *)
evictNotCounted(set, E, tag, st) ==
    LET evict_at == EvictAt(set, E) IN
    [set   |-> [set EXCEPT ![evict_at] =
                   [valid |-> 1, tag |-> tag, lru |-> st.lru_count]],
     stats |-> [st EXCEPT !.lru_count = @ + 1]]

(* Mutant of evict: line 96, the store of the tag, left out. *)
evictTagNotStored(set, E, tag, st) ==
    LET evict_at == EvictAt(set, E) IN
    [set   |-> [set EXCEPT ![evict_at] =
                   [valid |-> 1, tag |-> set[evict_at].tag, lru |-> st.lru_count]],
     stats |-> [st EXCEPT !.evictions = IF set[evict_at].valid = 1 THEN @ + 1 ELSE @,
                          !.lru_count = @ + 1]]

(* evict(set, tag): the set and the stats after the call. *)
evict(set, E, tag, st) ==
    LET evict_at == EvictAt(set, E) IN
    [set   |-> [set EXCEPT ![evict_at] =
                   [valid |-> 1, tag |-> tag, lru |-> st.lru_count]],
     stats |-> [st EXCEPT !.evictions = IF set[evict_at].valid = 1 THEN @ + 1 ELSE @,
                          !.lru_count = @ + 1]]

(* -------------------------------------------------------------------- *)
(* getData                                                                 *)

(* Mutant of SetOf: the shift by args.block_bits of line 107 left out. *)
SetOfNoShift(a, b, nsets) == BitAnd(a, nsets - 1)

TagOf(a, s, b) == Shr(a, b + s)
SetOf(a, b, nsets) == BitAnd(Shr(a, b), nsets - 1)

(* Mutant of HitScan: the loop stops one line early (line < args.assoc - 1). *)
RECURSIVE HitScanShort(_, _, _, _)
HitScanShort(set, E, tag, line) ==
    IF line >= E - 1 THEN -1
    ELSE IF set[line].valid = 1 /\ set[line].tag = tag THEN line
         ELSE HitScanShort(set, E, tag, line + 1)

(* The for loop of getData: the first valid line holding tag, or -1. *)
RECURSIVE HitScan(_, _, _, _)
HitScan(set, E, tag, line) ==
    IF line >= E THEN -1
    ELSE IF set[line].valid = 1 /\ set[line].tag = tag THEN line
         ELSE HitScan(set, E, tag, line + 1)

(* Mutant of getData: the hit of line 112 stamps the line but leaves the   *)
(* clock where it was (stats.lru_count instead of stats.lru_count++).      *)
getDataHitNoTick(c, st, a, s, E, b, nsets) ==
    LET tag  == TagOf(a, s, b)
        si   == SetOf(a, b, nsets)
        set  == c[si]
        line == HitScan(set, E, tag, 0)
    IN  IF line >= 0
        THEN [cache |-> [c EXCEPT ![si][line].lru = st.lru_count],
              stats |-> [st EXCEPT !.hits = @ + 1]]
        ELSE LET e == evict(set, E, tag, [st EXCEPT !.misses = @ + 1])
             IN  [cache |-> [c EXCEPT ![si] = e.set], stats |-> e.stats]

(* Mutant of getData: the test of line 110 left out, so that the tag 0 of  *)
(* an invalid line matches.                                                *)
getDataValidNotTested(c, st, a, s, E, b, nsets) ==
    LET tag  == TagOf(a, s, b)
        si   == SetOf(a, b, nsets)
        set  == c[si]
        hits == {l \in 0..(E - 1) : set[l].tag = tag}
        line == IF hits = {} THEN -1 ELSE CHOOSE l \in hits : \A m \in hits : l <= m
    IN  IF line >= 0
        THEN [cache |-> [c EXCEPT ![si][line].lru = st.lru_count],
              stats |-> [st EXCEPT !.lru_count = @ + 1, !.hits = @ + 1]]
        ELSE LET e == evict(set, E, tag, [st EXCEPT !.misses = @ + 1])
             IN  [cache |-> [c EXCEPT ![si] = e.set], stats |-> e.stats]

(* Mutant of getData: the return of line 114 left out, so that a hit goes  *)
(* on to count a miss and call evict.                                      *)
getDataNoReturn(c, st, a, s, E, b, nsets) ==
    LET tag  == TagOf(a, s, b)
        si   == SetOf(a, b, nsets)
        set  == c[si]
        line == HitScan(set, E, tag, 0)
        c1   == IF line >= 0 THEN [c EXCEPT ![si][line].lru = st.lru_count] ELSE c
        st1  == IF line >= 0 THEN [st EXCEPT !.lru_count = @ + 1, !.hits = @ + 1] ELSE st
        e    == evict(c1[si], E, tag, [st1 EXCEPT !.misses = @ + 1])
    IN  [cache |-> [c1 EXCEPT ![si] = e.set], stats |-> e.stats]

(* getData(a) on cache c and stats st: the cache and the stats after the call. *)
getData(c, st, a, s, E, b, nsets) ==
    LET tag  == TagOf(a, s, b)
        si   == SetOf(a, b, nsets)
        set  == c[si]
        line == HitScan(set, E, tag, 0)
    IN  IF line >= 0
        THEN [cache |-> [c EXCEPT ![si][line].lru = st.lru_count],
              stats |-> [st EXCEPT !.lru_count = @ + 1, !.hits = @ + 1]]
        ELSE LET e == evict(set, E, tag, [st EXCEPT !.misses = @ + 1])
             IN  [cache |-> [c EXCEPT ![si] = e.set], stats |-> e.stats]

(* What a getData call reported, read off the statistics before and after. *)
Outcome(st, st2) ==
    IF st2.hits = st.hits + 1 /\ st2.misses = st.misses /\ st2.evictions = st.evictions
    THEN "Hit"
    ELSE IF st2.hits = st.hits /\ st2.misses = st.misses + 1 /\ st2.evictions = st.evictions
    THEN "MissNoEvict"
    ELSE IF st2.hits = st.hits /\ st2.misses = st.misses + 1
            /\ st2.evictions = st.evictions + 1
    THEN "MissWithEvict"
    ELSE "Other"

(* -------------------------------------------------------------------- *)
(* The state machine.                                                      *)

ZeroStats == [hits |-> 0, misses |-> 0, evictions |-> 0, lru_count |-> 0]

(* No file given in advance: the records are drawn as fscanf reads them. *)
NoFile == [lines |-> <<>>, pos |-> 0]

NoExit == -1

(* main after a command line -s, -E, -b, -t with a readable trace: init    *)
(* was called and runTraceSim has opened the trace.                        *)
Started == [t_addr |-> "readable", verbose |-> 0, trace |-> "open",
            given |-> {"s", "E", "b", "t"}, nopts |-> 4,
            usage |-> FALSE, exit_code |-> NoExit, init_called |-> TRUE]

(* main has set the geometry and called init; runTraceSim has opened the trace. *)
Init ==
    /\ idx_bits \in 1..MaxS
    /\ assoc \in 1..MaxE
    /\ block_bits \in 1..MaxB
    /\ num_sets = Shl1(idx_bits)
    /\ cache = init(num_sets, assoc)
    /\ stats = ZeroStats
    /\ pc = "fscanf"
    /\ operation = "?"
    /\ addr = 0
    /\ ret = 0
    /\ log = <<>>
    /\ owed = 0
    /\ unread = <<>>
    /\ file = NoFile
    /\ prog = Started

(* One call getData(a), as part of an action. *)
Access(a) ==
    LET r == getData(cache, stats, a, idx_bits, assoc, block_bits, num_sets) IN
    /\ Len(log) < MaxAccesses
    /\ cache' = r.cache
    /\ stats' = r.stats
    /\ log' = Append(log, [set |-> SetOf(a, block_bits, num_sets),
                           tag |-> TagOf(a, idx_bits, block_bits),
                           out |-> Outcome(stats, r.stats)])

(* fscanf returns 3 and has stored the record (op, a, size). *)
Scanned(op, a) ==
    /\ pc = "fscanf"
    /\ ret' = 3
    /\ operation' = op
    /\ addr' = a

CaseL ==
    \E a \in Addrs, size \in Sizes :
        /\ Scanned("L", a)
        /\ Access(a)
        /\ pc' = "fscanf"
        /\ owed' = owed + 1
        /\ UNCHANGED <<file, prog, idx_bits, assoc, block_bits, num_sets, unread>>

CaseS ==
    \E a \in Addrs, size \in Sizes :
        /\ Scanned("S", a)
        /\ Access(a)
        /\ pc' = "fscanf"
        /\ owed' = owed + 1
        /\ UNCHANGED <<file, prog, idx_bits, assoc, block_bits, num_sets, unread>>

(* Mutant of CaseM: the second getData(addr) of line 143 left out. *)
CaseMOnce ==
    \E a \in Addrs, size \in Sizes :
        /\ Scanned("M", a)
        /\ Access(a)
        /\ pc' = "fscanf"
        /\ owed' = owed + 2
        /\ UNCHANGED <<file, prog, idx_bits, assoc, block_bits, num_sets, unread>>

(* case 'M', first getData(addr) *)
CaseM ==
    \E a \in Addrs, size \in Sizes :
        /\ Scanned("M", a)
        /\ Len(log) + 1 < MaxAccesses
        /\ Access(a)
        /\ pc' = "M2"
        /\ owed' = owed + 2
        /\ UNCHANGED <<file, prog, idx_bits, assoc, block_bits, num_sets, unread>>

(* case 'M', second getData(addr) *)
CaseM2 ==
    /\ pc = "M2"
    /\ Access(addr)
    /\ pc' = "fscanf"
    /\ UNCHANGED <<file, prog, idx_bits, assoc, block_bits, num_sets, operation, addr, ret,
                   owed, unread>>

(* Mutant of CaseDefault: another operation handled as a load. *)
CaseDefaultAsLoad ==
    \E op \in OtherOps, a \in Addrs, size \in Sizes :
        /\ Scanned(op, a)
        /\ Access(a)
        /\ pc' = "fscanf"
        /\ UNCHANGED <<file, prog, idx_bits, assoc, block_bits, num_sets, owed, unread>>

(* default: break *)
CaseDefault ==
    \E op \in OtherOps, a \in Addrs, size \in Sizes :
        /\ Scanned(op, a)
        /\ pc' = "fscanf"
        /\ UNCHANGED <<file, prog, idx_bits, assoc, block_bits, num_sets, cache, stats, log,
                       owed, unread>>

(* fscanf returns less than 3: the end of the file (EOF) or a line that   *)
(* does not match the format (0, 1 or 2 items stored).  The loop exits    *)
(* and the trace is closed.                                                *)
ScanFail ==
    \E r \in {EOF, 0, 1, 2} :
        /\ pc = "fscanf"
        /\ ret' = r
        /\ pc' = "closed"
        /\ UNCHANGED <<file, prog, idx_bits, assoc, block_bits, num_sets, cache, stats,
                       operation, addr, log, owed, unread>>

(* The file went on after the line that did not match: the address of a   *)
(* Load or Store record that runTraceSim never read (a Modify record is   *)
(* the same address twice).                                                *)
UnreadRecord ==
    \E a \in Addrs :
        /\ pc = "closed"
        /\ ret \in {0, 1, 2}
        /\ Len(log) + Len(unread) < MaxFile
        /\ unread' = Append(unread, a)
        /\ UNCHANGED <<file, prog, idx_bits, assoc, block_bits, num_sets, cache, stats, pc,
                       operation, addr, ret, log, owed>>

Next ==
    \/ CaseL
    \/ CaseS
    \/ CaseM
    \/ CaseM2
    \/ CaseDefault
    \/ ScanFail
    \/ UnreadRecord

Spec == Init /\ [][Next]_vars

(* -------------------------------------------------------------------- *)
(* The same loop on a trace file given in advance.                         *)

(* One call getData(a), as part of an action. *)
Call(a) ==
    LET r == getData(cache, stats, a, idx_bits, assoc, block_bits, num_sets) IN
    /\ cache' = r.cache
    /\ stats' = r.stats
    /\ log' = Append(log, [set |-> SetOf(a, block_bits, num_sets),
                           tag |-> TagOf(a, idx_bits, block_bits),
                           out |-> Outcome(stats, r.stats)])

Rec(op, a) == [op |-> op, addr |-> a]

(* The trace of the end-to-end scenario of the specification. *)
ScenarioTrace == <<Rec("L", 0), Rec("L", 2), Rec("L", 4), Rec("S", 6), Rec("L", 0)>>

ScenarioRecords == {ScenarioTrace[i] : i \in 1..Len(ScenarioTrace)}

(* Files of up to MaxTraceLen records of the scenario, in any order. *)
ScenarioFiles == UNION {[1..n -> ScenarioRecords] : n \in 0..MaxTraceLen}

(* Files of two records: any record, then a load, of any two addresses. *)
PairFiles ==
    {<<Rec(op, a1), Rec("L", a2)>> : op \in {"L", "M", "I"},
                                     a1 \in 0..MaxFileAddr, a2 \in 0..MaxFileAddr}

(* The scenario's files are replayed with the scenario's s = 1 and b = 1,  *)
(* the two-record files with every s and b of 1..MaxFileBits.              *)
InitFile ==
    /\ \/ /\ \E lines \in ScenarioFiles : file = [lines |-> lines, pos |-> 0]
          /\ idx_bits = 1
          /\ block_bits = 1
       \/ /\ \E lines \in PairFiles : file = [lines |-> lines, pos |-> 0]
          /\ idx_bits \in 1..MaxFileBits
          /\ block_bits \in 1..MaxFileBits
    /\ assoc \in 1..MaxE
    /\ num_sets = Shl1(idx_bits)
    /\ cache = init(num_sets, assoc)
    /\ stats = ZeroStats
    /\ pc = "fscanf"
    /\ operation = "?"
    /\ addr = 0
    /\ ret = 0
    /\ log = <<>>
    /\ owed = 0
    /\ unread = <<>>
    /\ prog = Started

(* fscanf returns 3 and has stored the next record of the file. *)
ScannedNext(op) ==
    /\ file.pos < Len(file.lines)
    /\ file.lines[file.pos + 1].op = op
    /\ Scanned(op, file.lines[file.pos + 1].addr)
    /\ file' = [file EXCEPT !.pos = @ + 1]

FileL ==
    /\ ScannedNext("L")
    /\ Call(addr')
    /\ pc' = "fscanf"
    /\ owed' = owed + 1
    /\ UNCHANGED <<prog, idx_bits, assoc, block_bits, num_sets, unread>>

FileS ==
    /\ ScannedNext("S")
    /\ Call(addr')
    /\ pc' = "fscanf"
    /\ owed' = owed + 1
    /\ UNCHANGED <<prog, idx_bits, assoc, block_bits, num_sets, unread>>

FileM ==
    /\ ScannedNext("M")
    /\ Call(addr')
    /\ pc' = "M2"
    /\ owed' = owed + 2
    /\ UNCHANGED <<prog, idx_bits, assoc, block_bits, num_sets, unread>>

FileM2 ==
    /\ pc = "M2"
    /\ Call(addr)
    /\ pc' = "fscanf"
    /\ UNCHANGED <<file, prog, idx_bits, assoc, block_bits, num_sets, operation, addr,
                   ret, owed, unread>>

FileDefault ==
    /\ \E op \in OtherOps : ScannedNext(op)
    /\ pc' = "fscanf"
    /\ UNCHANGED <<prog, idx_bits, assoc, block_bits, num_sets, cache, stats, log,
                   owed, unread>>

(* fscanf returns EOF at the end of the file; the loop exits. *)
FileEOF ==
    /\ pc = "fscanf"
    /\ file.pos = Len(file.lines)
    /\ ret' = EOF
    /\ pc' = "closed"
    /\ UNCHANGED <<file, prog, idx_bits, assoc, block_bits, num_sets, cache, stats,
                   operation, addr, log, owed, unread>>

NextFile ==
    \/ FileL
    \/ FileS
    \/ FileM
    \/ FileM2
    \/ FileDefault
    \/ FileEOF

SpecFile == InitFile /\ [][NextFile]_vars

(* -------------------------------------------------------------------- *)
(* main: the command line, the check of the arguments, init, fopen.        *)

(* The option arguments of the model, as strings of characters. *)
OptArgs == {<<"1">>, <<"2">>, <<"0">>, <<"-", "1">>, <<"x">>, <<"2", "x">>}

(* The trace files named on the command line. *)
TraceNames == {"readable", "missing"}

DigitVal(c) ==
    CASE c = "0" -> 0 [] c = "1" -> 1 [] c = "2" -> 2 [] c = "3" -> 3 [] c = "4" -> 4
      [] c = "5" -> 5 [] c = "6" -> 6 [] c = "7" -> 7 [] c = "8" -> 8 [] c = "9" -> 9
      [] OTHER -> -1

RECURSIVE AtoiDigits(_, _, _)
AtoiDigits(str, i, acc) ==
    IF i > Len(str) \/ DigitVal(str[i]) < 0 THEN acc
    ELSE AtoiDigits(str, i + 1, 10 * acc + DigitVal(str[i]))

(* atoi: an optional sign, then the digits up to the first other character. *)
atoi(str) ==
    IF str = <<>> THEN 0
    ELSE IF str[1] = "-" THEN 0 - AtoiDigits(str, 2, 0)
    ELSE IF str[1] = "+" THEN AtoiDigits(str, 2, 0)
    ELSE AtoiDigits(str, 1, 0)

(* What 1 << n may give when n is negative (undefined in C): INT_MIN where *)
(* the machine masks the shift count, 0 where it shifts everything out.    *)
UndefinedShift == {0 - ULONG_MAX - 1, 0}

(* The globals before main runs: zero, NULL. *)
InitMain ==
    /\ idx_bits = 0
    /\ assoc = 0
    /\ block_bits = 0
    /\ num_sets = 0
    /\ cache = <<>>
    /\ stats = ZeroStats
    /\ pc = "getopt"
    /\ operation = "?"
    /\ addr = 0
    /\ ret = 0
    /\ log = <<>>
    /\ owed = 0
    /\ unread = <<>>
    /\ file = NoFile
    /\ prog = [t_addr |-> "NULL", verbose |-> 0, trace |-> "none",
               given |-> {}, nopts |-> 0,
               usage |-> FALSE, exit_code |-> NoExit, init_called |-> FALSE]

(* getopt returns the option c. *)
Getopt(c) ==
    /\ pc = "getopt"
    /\ prog.nopts < MaxOpts

Seen(c) == [prog EXCEPT !.given = @ \cup {c}, !.nopts = @ + 1]

(* help: the usage text, then exit(0). *)
help(p) == [p EXCEPT !.usage = TRUE, !.exit_code = 0]

OptS ==
    \E str \in OptArgs :
        /\ Getopt("s")
        /\ idx_bits' = atoi(str)
        /\ prog' = Seen("s")
        /\ UNCHANGED <<assoc, block_bits, num_sets, cache, stats, pc, operation, addr,
                       ret, log, owed, unread, file>>

OptE ==
    \E str \in OptArgs :
        /\ Getopt("E")
        /\ assoc' = atoi(str)
        /\ prog' = Seen("E")
        /\ UNCHANGED <<idx_bits, block_bits, num_sets, cache, stats, pc, operation, addr,
                       ret, log, owed, unread, file>>

OptB ==
    \E str \in OptArgs :
        /\ Getopt("b")
        /\ block_bits' = atoi(str)
        /\ prog' = Seen("b")
        /\ UNCHANGED <<idx_bits, assoc, num_sets, cache, stats, pc, operation, addr,
                       ret, log, owed, unread, file>>

OptT ==
    \E name \in TraceNames :
        /\ Getopt("t")
        /\ prog' = [Seen("t") EXCEPT !.t_addr = name]
        /\ UNCHANGED <<idx_bits, assoc, block_bits, num_sets, cache, stats, pc,
                       operation, addr, ret, log, owed, unread, file>>

OptV ==
    /\ Getopt("v")
    /\ prog' = [Seen("v") EXCEPT !.verbose = 1]
    /\ UNCHANGED <<idx_bits, assoc, block_bits, num_sets, cache, stats, pc,
                   operation, addr, ret, log, owed, unread, file>>

(* case 'h': help(argv) exits with 0; the exit(0) after it is not reached. *)
OptH ==
    /\ Getopt("h")
    /\ prog' = help(Seen("h"))
    /\ pc' = "exited"
    /\ UNCHANGED <<idx_bits, assoc, block_bits, num_sets, cache, stats,
                   operation, addr, ret, log, owed, unread, file>>

(* default (an unknown option, an option without its argument):           *)
(* help(argv) exits with 0; the exit(1) after it is not reached.           *)
OptDefault ==
    /\ Getopt("?")
    /\ prog' = help(Seen("?"))
    /\ pc' = "exited"
    /\ UNCHANGED <<idx_bits, assoc, block_bits, num_sets, cache, stats,
                   operation, addr, ret, log, owed, unread, file>>

MissingArg == idx_bits = 0 \/ assoc = 0 \/ block_bits = 0 \/ prog.t_addr = "NULL"

(* getopt returns -1 and the check of line 202 finds an argument missing:  *)
(* the message, then help(argv), which exits with 0; the exit(1) after it  *)
(* is not reached.                                                         *)
ArgsMissing ==
    /\ pc = "getopt"
    /\ MissingArg
    /\ prog' = help(prog)
    /\ pc' = "exited"
    /\ UNCHANGED <<idx_bits, assoc, block_bits, num_sets, cache, stats,
                   operation, addr, ret, log, owed, unread, file>>

(* getopt returns -1 and the check of line 202 passes: num_sets is set. *)
ArgsSet ==
    /\ pc = "getopt"
    /\ ~MissingArg
    /\ IF idx_bits > 0 THEN num_sets' = Shl1(idx_bits)
       ELSE num_sets' \in UndefinedShift
    /\ pc' = "init"
    /\ UNCHANGED <<idx_bits, assoc, block_bits, cache, stats, operation, addr, ret,
                   log, owed, unread, file, prog>>

(* init(); with num_sets not positive the loop over the sets does not run, *)
(* with args.assoc not positive the loop over the lines does not.          *)
CallInit ==
    /\ pc = "init"
    /\ cache' = IF num_sets <= 0 THEN <<>> ELSE init(num_sets, assoc)
    /\ prog' = [prog EXCEPT !.init_called = TRUE]
    /\ pc' = "fopen"
    /\ UNCHANGED <<idx_bits, assoc, block_bits, num_sets, stats, operation, addr, ret,
                   log, owed, unread, file>>

(* runTraceSim(t_addr): fopen gives the stream, or NULL; its result is not tested. *)
Fopen ==
    /\ pc = "fopen"
    /\ prog' = [prog EXCEPT !.trace = IF prog.t_addr = "readable" THEN "open" ELSE "NULL"]
    /\ pc' = "fscanf"
    /\ UNCHANGED <<idx_bits, assoc, block_bits, num_sets, cache, stats, operation, addr,
                   ret, log, owed, unread, file>>

(* fscanf(NULL, ...) is undefined: the process is killed (SIGSEGV, exit    *)
(* status 139), or a library that tests the stream returns EOF.            *)
FscanfNull ==
    /\ pc = "fscanf"
    /\ prog.trace = "NULL"
    /\ \/ /\ pc' = "crashed"
          /\ prog' = [prog EXCEPT !.exit_code = 139]
          /\ ret' = ret
       \/ /\ pc' = "closed"
          /\ prog' = prog
          /\ ret' = EOF
    /\ UNCHANGED <<idx_bits, assoc, block_bits, num_sets, cache, stats, operation, addr,
                   log, owed, unread, file>>

NextMain ==
    \/ OptS
    \/ OptE
    \/ OptB
    \/ OptT
    \/ OptV
    \/ OptH
    \/ OptDefault
    \/ ArgsMissing
    \/ ArgsSet
    \/ CallInit
    \/ Fopen
    \/ FscanfNull

SpecMain == InitMain /\ [][NextMain]_vars

(* -------------------------------------------------------------------- *)
(* Vocabulary of the properties.                                           *)

Sets == 0..(num_sets - 1)
Lines == 0..(assoc - 1)

(* The valid tags a set holds. *)
TagsIn(set) == {set[line].tag : line \in {l \in Lines : set[l].valid = 1}}

AllValid(set) == \A line \in Lines : set[line].valid = 1

(* The positions of the log that accessed set si. *)
InSet(si) == {i \in 1..Len(log) : log[i].set = si}

(* The first n accesses of the log went to pairwise distinct (set, tag) pairs. *)
DistinctUpTo(n) ==
    \A i, j \in 1..n : i # j => (log[i].set # log[j].set \/ log[i].tag # log[j].tag)

(* C1. Capacity: once N*E accesses to pairwise distinct (set, tag) pairs   *)
(* have put exactly E tags into each of the N sets, every line is valid    *)
(* and nothing was evicted; the access of one more new tag, into any set,  *)
(* then makes evictions 1.                                                 *)
CapacityClaim ==
    LET n == num_sets * assoc IN
    (/\ Len(log) >= n
     /\ DistinctUpTo(n)
     /\ \A si \in Sets : Cardinality({i \in InSet(si) : i <= n}) = assoc)
    => /\ Len(log) = n =>
            /\ \A si \in Sets : AllValid(cache[si])
            /\ stats.evictions = 0
       /\ (Len(log) = n + 1 /\ DistinctUpTo(n + 1)) =>
            /\ log[n + 1].out = "MissWithEvict"
            /\ stats.evictions = 1

(* C2. Empty lines first: a miss into a set that still has an invalid line *)
(* reports no eviction and overwrites no valid line (it is placed in an    *)
(* invalid one); so a miss reports an eviction only if every line of the   *)
(* selected set was valid before the access.                               *)
EmptyFirstClaim ==
    [][ \A si \in Sets :
          (/\ Len(log') = Len(log) + 1
           /\ log'[Len(log')].set = si
           /\ stats'.misses = stats.misses + 1
           /\ ~AllValid(cache[si]))
          => /\ stats'.evictions = stats.evictions
             /\ \A line \in Lines :
                   cache[si][line].valid = 1 => cache'[si][line] = cache[si][line]
             /\ \E line \in Lines :
                   cache[si][line].valid = 0 /\ cache'[si][line].valid = 1 ]_vars

(* A reference set-associative cache: each set is a recency list of tags,  *)
(* the most recently touched first.                                        *)
Without(list, tag) == SelectSeq(list, LAMBDA t : t # tag)

Has(list, tag) == \E k \in 1..Len(list) : list[k] = tag

RefOutcome(list, tag, E) ==
    IF Has(list, tag) THEN "Hit"
    ELSE IF Len(list) < E THEN "MissNoEvict"
    ELSE "MissWithEvict"

RefTouch(list, tag, E) ==
    IF Has(list, tag) THEN <<tag>> \o Without(list, tag)
    ELSE IF Len(list) < E THEN <<tag>> \o list
    ELSE <<tag>> \o SubSeq(list, 1, Len(list) - 1)

(* The recency lists after the first n accesses of the log. *)
RECURSIVE RefLists(_)
RefLists(n) ==
    IF n = 0 THEN [si \in Sets |-> <<>>]
    ELSE LET prev == RefLists(n - 1)
             a    == log[n]
         IN  [prev EXCEPT ![a.set] = RefTouch(prev[a.set], a.tag, assoc)]

(* C3. True LRU: access by access, getData reports what the reference      *)
(* cache reports for the same sequence of accesses.                        *)
TrueLruClaim ==
    \A n \in 1..Len(log) :
        log[n].out = RefOutcome(RefLists(n - 1)[log[n].set], log[n].tag, assoc)

(* The whole log accessed one set, its first n tags pairwise distinct. *)
OneSetDistinct(n) ==
    /\ Len(log) >= n
    /\ \A i \in 1..Len(log) : log[i].set = log[1].set
    /\ \A i, j \in 1..n : i # j => log[i].tag # log[j].tag

(* C4. LRU scenario: in one set that starts empty, distinct tags           *)
(* t1..t(E+1) accessed in order: t1..tE fill the set, t1 is the least      *)
(* recently used when t(E+1) arrives and is the one tag evicted; the       *)
(* re-access of t1 that follows is a miss with eviction.                   *)
LruScenarioClaim ==
    LET E == assoc
        held == TagsIn(cache[log[1].set])
    IN  /\ (OneSetDistinct(E) /\ Len(log) = E) =>
              /\ held = {log[i].tag : i \in 1..E}
              /\ stats.evictions = 0
        /\ (OneSetDistinct(E + 1) /\ Len(log) = E + 1) =>
              /\ log[E + 1].out = "MissWithEvict"
              /\ held = {log[i].tag : i \in 2..(E + 1)}
              /\ stats.evictions = 1
        /\ (OneSetDistinct(E + 1) /\ Len(log) = E + 2 /\ log[E + 2].tag = log[1].tag) =>
              log[E + 2].out = "MissWithEvict"

SameLine(i, j) == log[i].set = log[j].set /\ log[i].tag = log[j].tag

(* C5. Hit idempotence: once an address was accessed, a further access to  *)
(* it is a Hit (misses and evictions unchanged) whenever no different tag  *)
(* of its set was accessed in between; other sets may be.                  *)
HitIdempotence ==
    \A i, j \in 1..Len(log) :
        (/\ i < j
         /\ SameLine(i, j)
         /\ \A k \in (i + 1)..(j - 1) : log[k].set = log[i].set => log[k].tag = log[i].tag)
        => log[j].out = "Hit"

(* An address accessed, then another set, then the address again: a Hit. *)
HitIdempotenceWitness ==
    \E i \in 1..Len(log) :
        /\ i + 2 <= Len(log)
        /\ log[i].out # "Hit"
        /\ log[i + 1].set # log[i].set
        /\ SameLine(i, i + 2)
        /\ log[i + 2].out = "Hit"

(* The state right after the switch has handled a record with operation op. *)
Handled(op) == pc = "fscanf" /\ ret = 3 /\ operation = op

(* C6. Modify doubling: the second access of a Modify record is a Hit on   *)
(* the line of its first; on an empty cache the record gives one miss      *)
(* without eviction, then one hit.                                         *)
ModifyDoubling ==
    Handled("M") =>
        LET n == Len(log) IN
        /\ n >= 2
        /\ SameLine(n - 1, n)
        /\ log[n - 1].set = SetOf(addr, block_bits, num_sets)
        /\ log[n - 1].tag = TagOf(addr, idx_bits, block_bits)
        /\ log[n].out = "Hit"
        /\ n = 2 => /\ log[1].out = "MissNoEvict"
                    /\ stats.hits = 1 /\ stats.misses = 1 /\ stats.evictions = 0

(* A Modify record whose first access evicted: its second access hit. *)
ModifyDoublingWitness ==
    /\ Handled("M")
    /\ Len(log) >= 3
    /\ log[Len(log) - 1].out = "MissWithEvict"
    /\ log[Len(log)].out = "Hit"

(* C7. Unrecognised operation: reading a record whose operation is not L,  *)
(* S or M calls getData not at all, changes neither the statistics, the    *)
(* clock nor any line, and leaves the loop at its next fscanf.             *)
OtherRecordSkipped ==
    [][ (pc = "fscanf" /\ ret' = 3 /\ operation' \notin {"L", "S", "M"})
        => (cache' = cache /\ stats' = stats /\ log' = log /\ pc' = "fscanf") ]_vars

(* A record with another operation was skipped in a cache that holds lines. *)
OtherRecordSkippedWitness ==
    /\ pc = "fscanf" /\ ret = 3 /\ operation \in OtherOps
    /\ stats.misses > 0
    /\ stats.hits > 0

(* The cache and the statistics had the first k unread accesses been made too. *)
RECURSIVE WithUnread(_)
WithUnread(k) ==
    IF k = 0 THEN [cache |-> cache, stats |-> stats]
    ELSE LET prev == WithUnread(k - 1)
         IN  getData(prev.cache, prev.stats, unread[k],
                     idx_bits, assoc, block_bits, num_sets)

(* C8. Malformed record recovery: when the replay is over, the statistics  *)
(* are those of the file without its lines that do not match, the records  *)
(* after such a line included.                                             *)
MalformedSkipClaim ==
    pc = "closed" =>
        LET want == WithUnread(Len(unread)).stats IN
        /\ stats.hits = want.hits
        /\ stats.misses = want.misses
        /\ stats.evictions = want.evictions

(* C9. Access accounting: hits + misses is the number of getData calls,    *)
(* which is l + s + 2*m whenever the loop is at fscanf or over, and one    *)
(* less between the two calls of a Modify record; the last call (the last  *)
(* two for Modify) accessed the address of the record read last.           *)
AccessAccounting ==
    LET n == Len(log) IN
    /\ stats.hits + stats.misses = n
    /\ pc \in {"fscanf", "closed"} => n = owed
    /\ pc = "M2" => n = owed - 1 /\ operation = "M"
    /\ operation \in {"L", "S", "M"} =>
          /\ n >= 1
          /\ log[n].set = SetOf(addr, block_bits, num_sets)
          /\ log[n].tag = TagOf(addr, idx_bits, block_bits)
    /\ (operation = "M" /\ pc # "M2") => (n >= 2 /\ SameLine(n - 1, n))

(* A Load or Store record, then a Modify record, both handled. *)
AccessAccountingWitness ==
    Handled("M") /\ owed = 3 /\ stats.hits + stats.misses = 3

Count(out) == Cardinality({i \in 1..Len(log) : log[i].out = out})

(* C10. Statistics update: every getData call raised exactly one of hits   *)
(* and misses by 1, and evictions by 1 or not at all, and by 1 only with   *)
(* misses; the counters are the numbers of such calls, so none ever        *)
(* decreases and evictions <= misses.                                      *)
StatisticsUpdate ==
    /\ \A i \in 1..Len(log) : log[i].out \in {"Hit", "MissNoEvict", "MissWithEvict"}
    /\ stats.hits = Count("Hit")
    /\ stats.misses = Count("MissNoEvict") + Count("MissWithEvict")
    /\ stats.evictions = Count("MissWithEvict")
    /\ stats.evictions <= stats.misses

(* A run with a Hit, a miss without eviction and a miss with eviction. *)
StatisticsUpdateWitness ==
    Count("Hit") > 0 /\ Count("MissNoEvict") > 0 /\ Count("MissWithEvict") > 0

ValidLines == {sl \in Sets \X Lines : cache[sl[1]][sl[2]].valid = 1}

(* C16. LRU clock: lru_count is the number of getData calls so far         *)
(* (hits + misses); the last call stamped the line it touched with the     *)
(* value the clock had before the call; every valid line's stamp is below  *)
(* the clock and no two valid lines of the cache carry the same stamp.     *)
LruClock ==
    /\ stats.lru_count = stats.hits + stats.misses
    /\ stats.lru_count = Len(log)
    /\ \A sl \in ValidLines : cache[sl[1]][sl[2]].lru < stats.lru_count
    /\ \A sl, tm \in ValidLines : sl # tm => cache[sl[1]][sl[2]].lru # cache[tm[1]][tm[2]].lru
    /\ Len(log) > 0 =>
          LET last == log[Len(log)] IN
          \E line \in Lines :
              /\ cache[last.set][line] =
                    [valid |-> 1, tag |-> last.tag, lru |-> stats.lru_count - 1]
              /\ \A sl \in ValidLines :
                    cache[sl[1]][sl[2]].lru = stats.lru_count - 1 => sl = <<last.set, line>>

(* Hits, misses and evictions have stamped the lines of a cache that holds several. *)
LruClockWitness ==
    /\ stats.hits > 0
    /\ stats.evictions > 0
    /\ Cardinality(ValidLines) >= 2

(* C17. No duplicate tags: no set holds two valid lines with the same tag. *)
NoDuplicateTags ==
    \A si \in Sets : \A l1, l2 \in Lines :
        (l1 # l2 /\ cache[si][l1].valid = 1 /\ cache[si][l2].valid = 1)
        => cache[si][l1].tag # cache[si][l2].tag

(* A set of two valid lines in which a lookup has matched the second line. *)
NoDuplicateTagsWitness ==
    /\ Len(log) > 0
    /\ log[Len(log)].out = "Hit"
    /\ assoc >= 2
    /\ AllValid(cache[log[Len(log)].set])
    /\ cache[log[Len(log)].set][1].tag = log[Len(log)].tag

(* The tags of the accesses of the log to set si, in order. *)
RECURSIVE TagsOfSet(_, _)
TagsOfSet(si, n) ==
    IF n = 0 THEN <<>>
    ELSE IF log[n].set = si THEN Append(TagsOfSet(si, n - 1), log[n].tag)
    ELSE TagsOfSet(si, n - 1)

(* C18. Left-to-right fill: while a set has received at most E accesses,   *)
(* all to distinct tags, its j-th tag is in line j-1, whichever set        *)
(* received the first access of the run.                                   *)
LeftToRightFillClaim ==
    \A si \in Sets :
        LET tags == TagsOfSet(si, Len(log)) IN
        (/\ Len(tags) <= assoc
         /\ \A i, j \in 1..Len(tags) : i # j => tags[i] # tags[j])
        => \A j \in 1..Len(tags) :
               cache[si][j - 1].valid = 1 /\ cache[si][j - 1].tag = tags[j]

(* C19. Occupancy accounting: the valid lines of the cache number          *)
(* misses - evictions, at most num_sets * assoc, and a valid line stays    *)
(* valid.                                                                  *)
OccupancyAccounting ==
    /\ [](/\ Cardinality(ValidLines) = stats.misses - stats.evictions
          /\ Cardinality(ValidLines) <= num_sets * assoc)
    /\ [][ \A si \in Sets : \A line \in Lines :
             cache[si][line].valid = 1 => cache'[si][line].valid = 1 ]_vars

(* Every line of the cache is valid and there have been evictions. *)
OccupancyAccountingWitness ==
    /\ Cardinality(ValidLines) = num_sets * assoc
    /\ stats.evictions > 0
    /\ stats.misses - stats.evictions = num_sets * assoc

(* C20. Access frame: a getData call changes exactly one line, a line of   *)
(* the set the index bits of the address select, and leaves it valid with  *)
(* the tag of the address; a Hit changes nothing but that line's stamp.    *)
AccessFrame ==
    [][ Len(log') = Len(log) + 1 =>
          LET si  == (addr' \div (2 ^ block_bits)) % (2 ^ idx_bits)
              tag == addr' \div (2 ^ (block_bits + idx_bits))
              changed == {sl \in Sets \X Lines : cache'[sl[1]][sl[2]] # cache[sl[1]][sl[2]]}
          IN  /\ Cardinality(changed) = 1
              /\ \A sl \in changed :
                    /\ sl[1] = si
                    /\ cache'[sl[1]][sl[2]].valid = 1
                    /\ cache'[sl[1]][sl[2]].tag = tag
                    /\ cache'[sl[1]][sl[2]].lru = stats.lru_count
                    /\ stats'.hits = stats.hits + 1 =>
                          /\ cache[sl[1]][sl[2]].valid = 1
                          /\ cache[sl[1]][sl[2]].tag = tag ]_vars

(* A Hit in one set while the other set holds a line. *)
AccessFrameWitness ==
    /\ Len(log) >= 2
    /\ log[Len(log)].out = "Hit"
    /\ \E si \in Sets : si # log[Len(log)].set /\ \E line \in Lines : cache[si][line].valid = 1

(* The block number of address a. *)
BlockOf(a) == a \div (2 ^ block_bits)

(* C11. Address decomposition: getData selects set (a >> b) mod 2^s and    *)
(* tag a >> (b + s); two addresses have the same set and tag exactly when  *)
(* they have the same block number; on a fresh cache an access to a2       *)
(* after one to a1 is a Hit exactly when a1 and a2 are in the same block.  *)
AddressDecomposition ==
    LET n == Len(file.lines)
        A(i) == file.lines[i].addr
        S(a) == SetOf(a, block_bits, num_sets)
        T(a) == TagOf(a, idx_bits, block_bits)
    IN  /\ \A i \in 1..n :
              /\ S(A(i)) = BlockOf(A(i)) % (2 ^ idx_bits)
              /\ T(A(i)) = A(i) \div (2 ^ (block_bits + idx_bits))
        /\ \A i, j \in 1..n :
              (S(A(i)) = S(A(j)) /\ T(A(i)) = T(A(j))) <=> BlockOf(A(i)) = BlockOf(A(j))
        /\ (ret = 3 /\ operation \in {"L", "S", "M"}) =>
              /\ log[Len(log)].set = BlockOf(addr) % (2 ^ idx_bits)
              /\ log[Len(log)].tag = addr \div (2 ^ (block_bits + idx_bits))
        /\ (n = 2 /\ file.pos = 2 /\ file.lines[1].op \in {"L", "M"}) =>
              (log[Len(log)].out = "Hit" <=> BlockOf(A(1)) = BlockOf(A(2)))

(* Two different addresses of one block of four bytes: the second access hit. *)
AddressDecompositionWitness ==
    /\ Len(file.lines) = 2 /\ file.pos = 2
    /\ file.lines[1].op = "L"
    /\ block_bits = 2 /\ idx_bits = 2
    /\ file.lines[1].addr # file.lines[2].addr
    /\ BlockOf(file.lines[1].addr) = BlockOf(file.lines[2].addr)
    /\ BlockOf(file.lines[1].addr) >= 4
    /\ log[Len(log)].out = "Hit"

(* The scenario: s=1, E=1, b=1, the scenario's trace replayed to its end. *)
ScenarioDone ==
    /\ idx_bits = 1 /\ assoc = 1 /\ block_bits = 1
    /\ file.lines = ScenarioTrace
    /\ pc = "closed"

(* C12 as stated. End-to-end scenario: the run ends with hits=0, misses=5, *)
(* evictions=2.                                                            *)
ScenarioClaim ==
    ScenarioDone => (stats.hits = 0 /\ stats.misses = 5 /\ stats.evictions = 2)

(* C12, amended. End-to-end scenario: the run ends with hits=0, misses=5,  *)
(* evictions=3 (set 0 receives tags 0, 1, 0 and set 1 tags 0, 1).          *)
ScenarioAmended ==
    ScenarioDone =>
        /\ stats.hits = 0 /\ stats.misses = 5 /\ stats.evictions = 3
        /\ [i \in 1..Len(log) |-> log[i].out] =
              <<"MissNoEvict", "MissNoEvict", "MissWithEvict", "MissWithEvict",
                "MissWithEvict">>

ScenarioWitness == ScenarioDone /\ Len(log) = 5

Mandatory == {"s", "E", "b", "t"}

(* getopt has returned neither 'h' nor '?'. *)
NoHelpOption == "h" \notin prog.given /\ "?" \notin prog.given

(* C13. Missing mandatory option: when -s, -E, -b or -t is absent the      *)
(* program prints the usage and exits with 1 and never calls init or       *)
(* opens the trace; an exit with 0 after the usage text happens for -h     *)
(* only.                                                                   *)
MissingOptionClaim ==
    /\ ~(Mandatory \subseteq prog.given) =>
          /\ ~prog.init_called
          /\ prog.trace = "none"
          /\ (pc = "exited" /\ NoHelpOption) => (prog.usage /\ prog.exit_code = 1)
    /\ (pc = "exited" /\ prog.usage /\ prog.exit_code = 0) => "h" \in prog.given

(* A geometry option was given and its value is not positive. *)
NonPositiveGiven ==
    \/ "s" \in prog.given /\ idx_bits <= 0
    \/ "E" \in prog.given /\ assoc <= 0
    \/ "b" \in prog.given /\ block_bits <= 0

(* C14. Non-positive geometry rejected: when the options are parsed and    *)
(* index_bits, associativity or block_bits is zero or negative, the        *)
(* process exits non-zero with the usage text and calls neither init nor   *)
(* runTraceSim.                                                            *)
NonPositiveGeometryClaim ==
    (pc # "getopt" /\ NoHelpOption /\ NonPositiveGiven) =>
        /\ pc = "exited"
        /\ prog.usage
        /\ prog.exit_code # 0
        /\ ~prog.init_called
        /\ prog.trace = "none"

(* C15. Unreadable trace: when fopen fails, no read is attempted on the    *)
(* stream that was not opened (the loop is not entered, nothing crashes),  *)
(* no getData call is made and hits, misses and evictions stay 0.          *)
UnreadableTraceClaim ==
    prog.trace = "NULL" =>
        /\ pc \notin {"crashed", "closed"}
        /\ ret = 0
        /\ Len(log) = 0
        /\ stats.hits = 0 /\ stats.misses = 0 /\ stats.evictions = 0

====
